---- MODULE Spec2Model ----
(***************************************************************************)
(* A model of assistant.py (pingali/youtube-assistant): the transcript and *)
(* summary cache kept in files, the audio cache, the listing pagination,   *)
(* the identifier resolver and the four CLI verbs.                         *)
(*                                                                         *)
(* Text is a sequence of one-character strings.  The external services     *)
(* (metadata lookup, transcript extraction, completion, speech) answer     *)
(* nondeterministically: each call either fails or returns a value.        *)
(***************************************************************************)
EXTENDS Integers, Sequences, FiniteSets, TLC

VARIABLES
    meta,      \* the metadata service: video id -> snippet (title, channelTitle)
    files,     \* transcripts/: path -> JSON text of the record stored there
    dirs,      \* transcripts/: the channel directories that exist
    prompts,   \* prompts/: template name -> template text (absent: not in DOMAIN)
    audio,     \* audio/: path -> the mp3 stored there
    rec,       \* per session: the transcript_data dict it holds (<<>> or <<dict>>)
    hist,      \* per session: the summarize_transcript calls made on that dict
    event,     \* the last operation: what was called, what it returned, which services it called
    budget,    \* steps taken and service failures injected so far
    cli,       \* the running CLI verb: its arguments, position and output
    lst,       \* the running get_channel_videos / get_playlist_videos call
    res        \* the running extract_video_id / extract_playlist_id call

vars == <<meta, files, dirs, prompts, audio, rec, hist, event, budget, cli, lst, res>>

storeVars == <<meta, files, dirs, prompts, audio, rec, hist>>

(***************************************************************************)
(* Bounds of the model.                                                    *)
(***************************************************************************)
MaxSteps == 4
MaxFailures == 1

Procs == {1, 2}
Videos == {"v1", "v2"}
Templates == {"default", "brief"}
Summaries == {"s1", "s2"}
Voices == {"alloy", "echo"}

(***************************************************************************)
(* Text helpers.                                                           *)
(***************************************************************************)
Range(s) == {s[i] : i \in 1..Len(s)}

RECURSIVE Join(_, _)
\* sep.join(parts), line 225: ' '.join(...)
Join(parts, sep) ==
    IF parts = <<>> THEN <<>>
    ELSE IF Len(parts) = 1 THEN Head(parts)
    ELSE Head(parts) \o sep \o Join(Tail(parts), sep)

\* the characters re.sub(r'[<>:"/\\|?*]', '_', ...) replaces, lines 205-206
IllegalPathChars == {"<", ">", ":", "\"", "/", "\\", "|", "?", "*"}

Sanitize(s) == [i \in 1..Len(s) |-> IF s[i] \in IllegalPathChars THEN "_" ELSE s[i]]

(***************************************************************************)
(* The metadata service.  A title is text; the uploader may edit it.       *)
(***************************************************************************)
Titles == {<<"a">>, <<"a", "?">>}
ChannelTitle == <<"C", "h">>
MetaVals == {[title |-> t, channelTitle |-> ChannelTitle, publishedAt |-> "2024"] : t \in Titles}

\* the transcript the extraction service holds for a video: timed segments
TranscriptOf(v) ==
    IF v = "v1" THEN << [text |-> <<"h", "i">>, start |-> 0, duration |-> 1],
                        [text |-> <<"y", "o">>, start |-> 1, duration |-> 1] >>
    ELSE << [text |-> <<"o", "k">>, start |-> 0, duration |-> 2] >>

(***************************************************************************)
(* Python dicts, as sequences of <<key, value>> in insertion order.        *)
(***************************************************************************)
DictKeys(d) == {d[i][1] : i \in 1..Len(d)}

DictHas(d, k) == k \in DictKeys(d)

DictGet(d, k) == d[CHOOSE i \in 1..Len(d) : d[i][1] = k][2]

\* d[k] = v: replaces the value of an existing key in place, else appends
DictSet(d, k, v) ==
    IF DictHas(d, k)
    THEN [i \in 1..Len(d) |-> IF d[i][1] = k THEN <<k, v>> ELSE d[i]]
    ELSE Append(d, <<k, v>>)

(***************************************************************************)
(* json.dump / json.load of a record.  The JSON text of an object is the   *)
(* list of its members, each a key token followed by the value's text;     *)
(* json.load rebuilds the dict member by member (a repeated key keeps the  *)
(* last value).                                                            *)
(***************************************************************************)
RECURSIVE JsonDumpObject(_)
JsonDumpObject(d) ==
    IF d = <<>> THEN <<>>
    ELSE <<[key |-> Head(d)[1]], [val |-> Head(d)[2]]>> \o JsonDumpObject(Tail(d))

RECURSIVE JsonLoadObject(_)
JsonLoadObject(j) ==
    IF Len(j) < 2 THEN <<>>
    ELSE LET rest == JsonLoadObject(SubSeq(j, 1, Len(j) - 2))
         IN  DictSet(rest, j[Len(j) - 1].key, j[Len(j)].val)

\* json.dump(transcript_data, f, ...), lines 241-242 and 308-309
JsonDump(data) ==
    [k \in DOMAIN data |->
        IF k = "summaries" THEN JsonDumpObject(data[k]) ELSE <<[val |-> data[k]]>>]

\* json.load(f), lines 219-220
JsonLoad(text) ==
    [k \in DOMAIN text |->
        IF k = "summaries" THEN JsonLoadObject(text[k]) ELSE text[k][1].val]

(***************************************************************************)
(* YouTubeSummarizer: the transcript cache.                                *)
(* In each handler `fail` names the service call that fails (0: none).     *)
(***************************************************************************)
\* get_transcript_path, lines 205-211, given the snippet get_video_info returned
GetTranscriptPath(info, v) ==
    [dir  |-> Sanitize(info.channelTitle),
     name |-> <<v, "_">> \o Sanitize(info.title) \o <<".json">>]

\* transcript_data as assembled on lines 225-238
NewTranscriptData(v, info, transcript_list) ==
    [video_id     |-> v,
     title        |-> info.title,
     channel      |-> info.channelTitle,
     published_at |-> info.publishedAt,
     transcript   |-> transcript_list,
     full_text    |-> Join([i \in 1..Len(transcript_list) |-> transcript_list[i].text], <<" ">>),
     summaries    |-> <<>>]

\* transcript_path.exists(), line 218 (a broken test that never finds the file)
TranscriptExistsNever(transcript_path) == FALSE

\* transcript_path.exists(), line 218
TranscriptExists(transcript_path) == transcript_path \in DOMAIN files

\* a failure raised outside the try block of lines 222-247
FailedUnwrapped(net, f, d) ==
    [outcome |-> "error", error |-> "HttpError", record |-> <<>>, net |-> net, files |-> f, dirs |-> d]

\* the call raises: the service's own error when get_transcript_path (line 215)
\* fails, ValueError("Could not download transcript ...: cause") when a call
\* inside the try block fails (lines 246-247)
Failed(net, f, d) ==
    [outcome |-> "error",
     error |-> IF Len(net) = 1 THEN "HttpError" ELSE "ValueError: Could not download transcript",
     record |-> <<>>, net |-> net, files |-> f, dirs |-> d]

\* download_transcript(video_id), lines 213-247
download_transcript(v, fail) ==
    IF fail = 1
    THEN Failed(<<"videos.list">>, files, dirs)              \* get_video_info raises, line 204
    ELSE
      LET transcript_path == GetTranscriptPath(meta[v], v)
          d == dirs \cup {transcript_path.dir}              \* channel_dir.mkdir, line 209
      IN  IF TranscriptExists(transcript_path)
          THEN [outcome |-> "ok", record |-> <<JsonLoad(files[transcript_path])>>,
                net |-> <<"videos.list">>, files |-> files, dirs |-> d]
          ELSE IF fail = 2
          THEN Failed(<<"videos.list", "get_transcript">>, files, d)
          ELSE IF fail = 3
          THEN Failed(<<"videos.list", "get_transcript", "videos.list">>, files, d)
          ELSE LET transcript_data == NewTranscriptData(v, meta[v], TranscriptOf(v))
               IN  [outcome |-> "ok", record |-> <<transcript_data>>,
                    net |-> <<"videos.list", "get_transcript", "videos.list">>,
                    files |-> (transcript_path :> JsonDump(transcript_data)) @@ files,
                    dirs |-> d]

(***************************************************************************)
(* Prompt templates.  A template is a sequence of pieces: "text" (literal  *)
(* text without braces), a replacement field "{transcript}", "{other}" or  *)
(* "{}", an escaped brace "{{" or "}}", or a lone brace "{" or "}".        *)
(***************************************************************************)
\* default_template, lines 255-264
DefaultTemplate == <<"text", "{transcript}">>

\* load_prompt_template, lines 253-268: the prompts directory after the call
PromptsAfterLoad(t) ==
    IF t \in DOMAIN prompts THEN prompts ELSE (t :> DefaultTemplate) @@ prompts

\* load_prompt_template, lines 270-271: the text returned
load_prompt_template(t) == PromptsAfterLoad(t)[t]

\* str.format(transcript=...), line 289: does it raise?
\* "{other}": KeyError; "{}": IndexError; a lone brace: ValueError
FormatRaises(template) ==
    \E i \in 1..Len(template) : template[i] \in {"{other}", "{}", "{", "}"}

\* str.format(transcript=full_text), line 289: the prompt
Format(template, full_text) ==
    [i \in 1..Len(template) |->
        IF template[i] = "{transcript}" THEN full_text
        ELSE IF template[i] = "{{" THEN <<"{">>
        ELSE IF template[i] = "}}" THEN <<"}">>
        ELSE <<template[i]>>]

(***************************************************************************)
(* YouTubeSummarizer: the summary cache.                                   *)
(***************************************************************************)
\* lines 277-279: the dict after the backward-compatibility fix
WithSummaries(data) ==
    IF "summaries" \in DOMAIN data THEN data ELSE ("summaries" :> <<>>) @@ data

\* line 304 left out: the summary is returned but never stored
StoreSummaryLost(data, prompt_template, summary) == data

\* transcript_data['summaries'][prompt_template] = summary, line 304
StoreSummary(data, prompt_template, summary) ==
    [data EXCEPT !.summaries = DictSet(@, prompt_template, summary)]

SumResult(outcome, text, data, net, f, d, pr) ==
    [outcome |-> outcome, text |-> text, data |-> data, net |-> net,
     files |-> f, dirs |-> d, prompts |-> pr]

\* summarize_transcript(transcript_data, prompt_template), lines 273-311;
\* `summary` is what the completion service answers when it is called
summarize_transcript(transcript_data, prompt_template, summary, fail) ==
    LET data1 == WithSummaries(transcript_data)
    IN  IF DictHas(data1.summaries, prompt_template)
        THEN SumResult("ok", DictGet(data1.summaries, prompt_template), data1, <<>>,
                       files, dirs, prompts)
        ELSE
          LET pr == PromptsAfterLoad(prompt_template)
              template == load_prompt_template(prompt_template)
          IN  IF FormatRaises(template)
              THEN SumResult("error", "", data1, <<>>, files, dirs, pr)
              ELSE IF fail = 1
              THEN SumResult("error", "", data1, <<"chat.completions">>, files, dirs, pr)
              ELSE
                LET data2 == StoreSummary(data1, prompt_template, summary)
                    net2 == <<"chat.completions", "videos.list">>
                IN  IF fail = 2
                    THEN SumResult("error", "", data2, net2, files, dirs, pr)
                    ELSE
                      LET transcript_path == GetTranscriptPath(meta[data2.video_id], data2.video_id)
                      IN  SumResult("ok", summary, data2, net2,
                                    (transcript_path :> JsonDump(data2)) @@ files,
                                    dirs \cup {transcript_path.dir}, pr)

(***************************************************************************)
(* YouTubeSummarizer: the audio cache.                                     *)
(***************************************************************************)
\* get_audio_path, lines 313-315
get_audio_path(v, t) == <<v, "_", t, "_openai.mp3">>

\* the test of line 345 always failing: the cached file is never reused
AudioCachedNever(v, t) == FALSE

\* the test of line 345
AudioCached(v, t) ==
    /\ get_audio_path(v, t) \in DOMAIN audio
    /\ audio[get_audio_path(v, t)].size > 0

\* play_summary_audio, lines 340-360 (with generate_openai_audio, lines 317-338);
\* `size` is the length of the mp3 the speech service answers
play_summary_audio(summary, v, t, voice, size, fail) ==
    IF AudioCached(v, t)
    THEN [outcome |-> "played cached", net |-> <<>>, audio |-> audio]
    ELSE IF fail = 1
    THEN [outcome |-> "reported", net |-> <<"audio.speech">>, audio |-> audio]
    ELSE [outcome |-> "played", net |-> <<"audio.speech">>,
          audio |-> (get_audio_path(v, t) :> [size |-> size, voice |-> voice, input |-> summary])
                    @@ audio]

(***************************************************************************)
(* Sessions.  A session is one run of the program's code on the cache: it  *)
(* calls download_transcript and then works on the dict that call          *)
(* returned, as the four verbs do (lines 390-402, 461-473).                *)
(***************************************************************************)
AudioSizes == {0, 3}

Event(op, p, v, t, outcome, record, text, net) ==
    [op |-> op, proc |-> p, video |-> v, template |-> t, outcome |-> outcome,
     record |-> record, text |-> text, net |-> net]

NoEvent == Event("none", 0, "", "", "", <<>>, "", <<>>)

\* the injected failure `fail` is the one that ended the call
Injected(r, fail) ==
    /\ fail # 0
    /\ r.outcome \in {"error", "reported"}
    /\ Len(r.net) = fail

CanFail(r, fail) ==
    fail # 0 => (budget.failures < MaxFailures /\ Injected(r, fail))

Spend(fail) ==
    [budget EXCEPT !.steps = @ + 1, !.failures = @ + (IF fail # 0 THEN 1 ELSE 0)]

\* transcript_data = summarizer.download_transcript(video_id)
Download(p) ==
    /\ budget.steps < MaxSteps
    /\ \E v \in Videos, fail \in 0..3 :
         LET r == download_transcript(v, fail)
         IN  /\ CanFail(r, fail)
             /\ files' = r.files
             /\ dirs' = r.dirs
             /\ rec' = IF r.outcome = "ok" THEN [rec EXCEPT ![p] = r.record] ELSE rec
             /\ hist' = IF r.outcome = "ok" THEN [hist EXCEPT ![p] = <<>>] ELSE hist
             /\ event' = Event("download_transcript", p, v, "", r.outcome, r.record,
                               IF r.outcome = "error" THEN r.error ELSE "", r.net)
             /\ budget' = Spend(fail)
    /\ UNCHANGED <<meta, prompts, audio, cli, lst, res>>

\* summary = summarizer.summarize_transcript(transcript_data, template)
Summarize(p) ==
    /\ budget.steps < MaxSteps
    /\ rec[p] # <<>>
    /\ \E t \in Templates, s \in Summaries, fail \in 0..2 :
         LET data == rec[p][1]
             r == summarize_transcript(data, t, s, fail)
         IN  /\ CanFail(r, fail)
             /\ files' = r.files
             /\ dirs' = r.dirs
             /\ prompts' = r.prompts
             /\ rec' = [rec EXCEPT ![p] = <<r.data>>]
             /\ hist' = [hist EXCEPT ![p] = Append(@,
                            [template |-> t, outcome |-> r.outcome, text |-> r.text,
                             net |-> r.net, hit |-> DictHas(WithSummaries(data).summaries, t)])]
             /\ event' = Event("summarize_transcript", p, data.video_id, t, r.outcome,
                               <<r.data>>, r.text, r.net)
             /\ budget' = Spend(fail)
    /\ UNCHANGED <<meta, audio, cli, lst, res>>

\* summarizer.play_summary_audio(summary, video_id, template, voice)
PlayAudio(p) ==
    /\ budget.steps < MaxSteps
    /\ rec[p] # <<>>
    /\ "summaries" \in DOMAIN rec[p][1]
    /\ \E t \in DictKeys(rec[p][1].summaries), voice \in Voices, size \in AudioSizes, fail \in 0..1 :
         LET data == rec[p][1]
             summary == DictGet(data.summaries, t)
             r == play_summary_audio(summary, data.video_id, t, voice, size, fail)
         IN  /\ CanFail(r, fail)
             /\ audio' = r.audio
             /\ event' = Event("play_summary_audio", p, data.video_id, t, r.outcome,
                               <<>>, voice, r.net)
             /\ budget' = Spend(fail)
    /\ UNCHANGED <<meta, files, dirs, prompts, rec, hist, cli, lst, res>>

\* outside the program: the uploader edits a video's title
EditMetadata ==
    /\ budget.steps < MaxSteps
    /\ \E v \in Videos, m \in MetaVals :
         /\ m # meta[v]
         /\ meta' = [meta EXCEPT ![v] = m]
         /\ event' = Event("edit", 0, v, "", "", <<>>, "", <<>>)
    /\ budget' = [budget EXCEPT !.steps = @ + 1]
    /\ UNCHANGED <<files, dirs, prompts, audio, rec, hist, cli, lst, res>>

(***************************************************************************)
(* Initial states.                                                         *)
(***************************************************************************)
\* a record file written by a version of the program that kept no summaries
\* (the case lines 277-279 provide for)
LegacyRecord ==
    [video_id |-> "v1", title |-> <<"a">>, channel |-> ChannelTitle,
     published_at |-> "2024", transcript |-> TranscriptOf("v1"),
     full_text |-> <<"h", "i", " ", "y", "o">>]

InitialFiles ==
    { <<>>,
      (GetTranscriptPath([title |-> <<"a">>, channelTitle |-> ChannelTitle], "v1")
          :> JsonDump(LegacyRecord)) }

\* what the user may have put in prompts/ before the run
InitialPrompts ==
    { <<>>,
      ("brief" :> <<"text">>),
      ("default" :> DefaultTemplate) @@ ("brief" :> <<"{transcript}", "text", "}">>) }

CliIdle == [pc |-> "idle"]
LstIdle == [pc |-> "idle"]
ResIdle == [pc |-> "idle"]

InitStore ==
    /\ meta = [v \in Videos |-> [title |-> <<"a">>, channelTitle |-> ChannelTitle, publishedAt |-> "2024"]]
    /\ files \in InitialFiles
    /\ dirs = {GetTranscriptPath(meta[v], v).dir : v \in {w \in Videos : GetTranscriptPath(meta[w], w) \in DOMAIN files}}
    /\ prompts \in InitialPrompts
    /\ audio = <<>>
    /\ rec = [p \in Procs |-> <<>>]
    /\ hist = [p \in Procs |-> <<>>]
    /\ event = NoEvent
    /\ budget = [steps |-> 0, failures |-> 0]

Init ==
    /\ InitStore
    /\ cli = CliIdle
    /\ lst = LstIdle
    /\ res = ResIdle

\* the program as it is meant to run (one invocation at a time)
Next ==
    \/ Download(1)
    \/ Summarize(1)
    \/ PlayAudio(1)
    \/ EditMetadata

Spec == Init /\ [][Next]_vars

\* two invocations of the tool running at once on the same directories
ConcNext ==
    \/ \E p \in Procs : Download(p)
    \/ \E p \in Procs : Summarize(p)
    \/ \E p \in Procs : PlayAudio(p)
    \/ EditMetadata

ConcSpec == Init /\ [][ConcNext]_vars

(***************************************************************************)
(* The CLI verbs: video (lines 373-405), channel (414-480), search         *)
(* (489-549) and playlist (559-634).  One run of a verb is modelled, a     *)
(* step per call it makes.  The listing a verb works on is what the        *)
(* listing service (or the resolver, for video) answers.                   *)
(***************************************************************************)
MaxListing == 2

Verbs == {"video", "channel", "search", "playlist"}
BatchVerbs == {"channel", "search", "playlist"}

\* what the user types at a click.confirm prompt ("": just Enter)
Answers == {"y", "n", ""}

RECURSIVE SeqsUpTo(_, _)
SeqsUpTo(S, n) ==
    IF n = 0 THEN {<<>>}
    ELSE LET shorter == SeqsUpTo(S, n - 1)
         IN  shorter \cup {Append(q, x) : q \in shorter, x \in S}

Listings == SeqsUpTo(Videos, MaxListing)

\* click.confirm(text, default=...): the answer taken
Confirm(answer, default) ==
    IF answer = "" THEN default ELSE answer = "y"

\* a per-video prompt that defaults to decline in every verb
PerVideoDefaultDecline(verb) == FALSE

\* the default of the per-video prompt: lines 446 and 519 (none given: False), line 601 (True)
PerVideoDefault(verb) == verb = "playlist"

\* the verbs that ask "Process all N videos?" first, lines 434-437 and 506-509
AsksGlobal(verb) == verb \in {"channel", "search"}

\* whether the verb calls play_summary_audio after printing:
\* lines 401-402, 472-473, 626-627; search (lines 529-546) has no such call
PlaysAudio(verb, play_audio) == play_audio /\ verb # "search"

\* the outer handler taking every failure: the run ends at the first failed video
AfterErrorAbort(verb, more) == "done"

\* where a verb goes after a video failed: video ends (lines 404-405); the
\* batch verbs report and continue (lines 475-477, 544-546, 629-631)
AfterError(verb, more) ==
    IF verb = "video" THEN "done"
    ELSE IF more THEN "transcript" ELSE "done"

CliVars == <<meta, rec, hist, event, lst, res>>

CliStart ==
    /\ cli.pc = "idle"
    /\ \E verb \in Verbs, template \in Templates, auto \in BOOLEAN, play \in BOOLEAN, voice \in Voices :
         /\ verb = "video" => ~auto
         /\ cli' = [pc |-> "list", verb |-> verb, template |-> template, auto_confirm |-> auto,
                    play_audio |-> play, voice |-> voice, video_ids |-> <<>>, k |-> 1,
                    asked |-> <<>>, selected |-> <<>>, i |-> 1, data |-> <<>>, summary |-> "",
                    cur |-> <<>>, processed |-> <<>>, errors |-> <<>>]
    /\ UNCHANGED <<files, dirs, prompts, audio, budget>>
    /\ UNCHANGED CliVars

\* extract_video_id (line 387), get_channel_videos (420), search_videos (495),
\* extract_playlist_id and get_playlist_videos (573-575): the ids, or a
\* failure that ends the verb in its outer handler
CliList ==
    /\ cli.pc = "list"
    /\ \/ /\ budget.failures < MaxFailures
          /\ budget' = [budget EXCEPT !.failures = @ + 1]
          /\ cli' = [cli EXCEPT !.pc = "done", !.errors = Append(@, "Error")]
       \/ /\ budget' = budget
          /\ \E ids \in Listings :
               /\ cli.verb = "video" => Len(ids) = 1
               /\ cli' = [cli EXCEPT
                     !.video_ids = ids,
                     !.selected = IF cli.verb = "video" THEN ids ELSE <<>>,
                     !.pc = IF cli.verb = "video" THEN "transcript"
                            ELSE IF AsksGlobal(cli.verb) /\ ~cli.auto_confirm THEN "confirm_all"
                            ELSE IF ids = <<>> THEN "done"
                            ELSE "select"]
    /\ UNCHANGED <<files, dirs, prompts, audio>>
    /\ UNCHANGED CliVars

\* click.confirm("Process all N videos?"), lines 434-437 and 506-509
CliConfirmAll ==
    /\ cli.pc = "confirm_all"
    /\ \E answer \in Answers :
         cli' = [cli EXCEPT
             !.asked = Append(@, [about |-> "all", answer |-> answer]),
             !.pc = IF ~Confirm(answer, FALSE) THEN "done"
                    ELSE IF cli.video_ids = <<>> THEN "done"
                    ELSE "select"]
    /\ UNCHANGED <<files, dirs, prompts, audio, budget>>
    /\ UNCHANGED CliVars

\* one turn of the selection loop, lines 440-454, 512-527, 583-590, 594-608
CliSelect ==
    /\ cli.pc = "select"
    /\ LET v == cli.video_ids[cli.k]
           last == cli.k = Len(cli.video_ids)
           Leave(sel) == IF ~last THEN "select" ELSE IF sel = <<>> THEN "done" ELSE "transcript"
       IN  \/ /\ budget.failures < MaxFailures             \* get_video_info raises
              /\ budget' = [budget EXCEPT !.failures = @ + 1]
              /\ cli' = [cli EXCEPT !.k = @ + 1, !.pc = Leave(cli.selected),
                                    !.errors = Append(@, "Error getting info")]
           \/ /\ budget' = budget
              /\ cli.auto_confirm
              /\ cli' = [cli EXCEPT !.k = @ + 1, !.selected = Append(@, v),
                                    !.pc = Leave(Append(cli.selected, v))]
           \/ /\ budget' = budget
              /\ ~cli.auto_confirm
              /\ \E answer \in Answers :
                   LET sel == IF Confirm(answer, PerVideoDefault(cli.verb))
                              THEN Append(cli.selected, v) ELSE cli.selected
                   IN  cli' = [cli EXCEPT
                           !.k = @ + 1,
                           !.asked = Append(@, [about |-> cli.k, answer |-> answer]),
                           !.selected = sel,
                           !.pc = Leave(sel)]
    /\ UNCHANGED <<files, dirs, prompts, audio>>
    /\ UNCHANGED CliVars

\* the verb's record after the current video ended (failed or not)
VideoEnded(failed) ==
    LET more == cli.i < Len(cli.selected)
    IN  [cli EXCEPT
            !.processed = Append(@, [video |-> cli.selected[cli.i], steps |-> cli.cur,
                                       failed |-> failed]),
            !.errors = IF failed THEN Append(@, "Error processing video") ELSE @,
            !.cur = <<>>,
            !.data = <<>>,
            !.i = @ + 1,
            !.pc = IF failed THEN AfterError(cli.verb, more)
                   ELSE IF more THEN "transcript" ELSE "done"]

Step(c, name) == [c EXCEPT !.cur = Append(@, name)]

\* transcript_data = summarizer.download_transcript(video_id), lines 390, 461, 534, 615
CliTranscript ==
    /\ cli.pc = "transcript"
    /\ \E fail \in 0..3 :
         LET r == download_transcript(cli.selected[cli.i], fail)
         IN  /\ CanFail(r, fail)
             /\ files' = r.files
             /\ dirs' = r.dirs
             /\ budget' = [budget EXCEPT !.failures = @ + (IF fail # 0 THEN 1 ELSE 0)]
             /\ cli' = IF r.outcome = "ok"
                       THEN [Step(cli, "transcript") EXCEPT !.data = r.record, !.pc = "summary"]
                       ELSE VideoEnded(TRUE)
    /\ UNCHANGED <<prompts, audio>>
    /\ UNCHANGED CliVars

\* summary = summarizer.summarize_transcript(transcript_data, template), lines 393, 464, 537, 618
CliSummary ==
    /\ cli.pc = "summary"
    /\ \E s \in Summaries, fail \in 0..2 :
         LET r == summarize_transcript(cli.data[1], cli.template, s, fail)
         IN  /\ CanFail(r, fail)
             /\ files' = r.files
             /\ dirs' = r.dirs
             /\ prompts' = r.prompts
             /\ budget' = [budget EXCEPT !.failures = @ + (IF fail # 0 THEN 1 ELSE 0)]
             /\ cli' = IF r.outcome = "ok"
                       THEN [Step(cli, "summary") EXCEPT !.data = <<r.data>>, !.summary = r.text,
                                                         !.pc = "print"]
                       ELSE VideoEnded(TRUE)
    /\ UNCHANGED audio
    /\ UNCHANGED CliVars

\* click.echo(summary), lines 395-398, 466-469, 539-542, 620-623
CliPrint ==
    /\ cli.pc = "print"
    /\ cli' = IF PlaysAudio(cli.verb, cli.play_audio)
              THEN [Step(cli, "print") EXCEPT !.pc = "audio"]
              ELSE [VideoEnded(FALSE) EXCEPT
                       !.processed[Len(cli.processed) + 1].steps = Append(cli.cur, "print")]
    /\ UNCHANGED <<files, dirs, prompts, audio, budget>>
    /\ UNCHANGED CliVars

\* summarizer.play_summary_audio(summary, video_id, template, voice), lines 402, 473, 627
CliAudio ==
    /\ cli.pc = "audio"
    /\ \E size \in AudioSizes, fail \in 0..1 :
         LET r == play_summary_audio(cli.summary, cli.selected[cli.i], cli.template,
                                     cli.voice, size, fail)
         IN  /\ CanFail(r, fail)
             /\ audio' = r.audio
             /\ budget' = [budget EXCEPT !.failures = @ + (IF fail # 0 THEN 1 ELSE 0)]
             /\ cli' = [VideoEnded(FALSE) EXCEPT
                           !.processed[Len(cli.processed) + 1].steps = Append(cli.cur, "audio"),
                           !.errors = IF r.outcome = "reported"
                                      THEN Append(cli.errors, "Error generating/playing audio")
                                      ELSE cli.errors]
    /\ UNCHANGED <<files, dirs, prompts>>
    /\ UNCHANGED CliVars

CliInit ==
    /\ InitStore
    /\ files = <<>>
    /\ prompts = <<>>
    /\ cli = CliIdle
    /\ lst = LstIdle
    /\ res = ResIdle

CliNext ==
    \/ CliStart
    \/ CliList
    \/ CliConfirmAll
    \/ CliSelect
    \/ CliTranscript
    \/ CliSummary
    \/ CliPrint
    \/ CliAudio

CliSpec == CliInit /\ [][CliNext]_vars

(***************************************************************************)
(* The listing client: get_channel_videos (lines 131-167) and              *)
(* get_playlist_videos (lines 169-189).  The playlist upstream holds the   *)
(* items 1, 2, ..., UpstreamLen; a continuation token names the position   *)
(* reached.  The service may answer a request with fewer items than asked  *)
(* for, or with more, and says itself whether there is a next page.        *)
(***************************************************************************)
MaxExtra == 3

\* min(50, ...), lines 156 and 178
PageSize == 50

UpstreamLen == PageSize + MaxExtra + 2

MaxResultsChoices == {0, 1, 2, PageSize, PageSize + 1, PageSize + MaxExtra}

Min(a, b) == IF a < b THEN a ELSE b

RECURSIVE FindSub(_, _, _)
\* the first position >= i at which sub occurs in s (0: none)
FindSub(s, sub, i) ==
    IF i + Len(sub) - 1 > Len(s) THEN 0
    ELSE IF SubSeq(s, i, i + Len(sub) - 1) = sub THEN i
    ELSE FindSub(s, sub, i + 1)

\* sub in s
Contains(s, sub) == FindSub(s, sub, 1) # 0

\* _is_playlist_url, lines 93-95
is_playlist_url(url) ==
    \/ Contains(url, <<"l", "i", "s", "t", "=">>)
    \/ Contains(url, <<"p", "l", "a", "y", "l", "i", "s", "t">>)

\* the channel_id arguments tried
ChannelArgs ==
    { <<"U", "C", "1">>,
      <<"x", "?", "l", "i", "s", "t", "=", "P", "L", "1">>,
      <<"m", "y", "p", "l", "a", "y", "l", "i", "s", "t">> }

\* maxResults without the cap of 50
RequestSizeUncapped(max_results, collected) == max_results - collected

\* maxResults=min(50, max_results - len(videos)), lines 156 and 178
RequestSize(max_results, collected) == Min(PageSize, max_results - collected)

\* the position a page token stands for (None: the start)
Position(token) == IF token = <<>> THEN 0 ELSE token[1]

\* the items the service may answer a request with, starting after position pos
PagesFor(maxResults, pos) ==
    {[n \in 1..k |-> pos + n] : k \in {j \in {0, 1, maxResults, maxResults + 1} : pos + j <= UpstreamLen}}

\* the entry of the call: lines 133-146 for a channel, 171-172 for a playlist
ListStart ==
    /\ lst.pc = "idle"
    /\ \E kind \in {"channel", "playlist"}, max_results \in MaxResultsChoices,
          arg \in ChannelArgs, found \in BOOLEAN :
         LET refused == kind = "channel" /\ (is_playlist_url(arg) \/ ~found)
         IN  lst' = [pc |-> IF refused THEN "error" ELSE "loop",
                     kind |-> kind, max_results |-> max_results, videos |-> <<>>,
                     next_page_token |-> <<>>, request |-> <<>>, page |-> <<>>,
                     pages |-> 0, overfull |-> FALSE, last |-> "start"]
    /\ UNCHANGED <<meta, files, dirs, prompts, audio, rec, hist, event, budget, cli, res>>

\* one turn of the while loop, lines 152-165 and 174-187
ListPage ==
    /\ lst.pc = "loop"
    /\ Len(lst.videos) < lst.max_results
    /\ LET request == [maxResults |-> RequestSize(lst.max_results, Len(lst.videos)),
                       pageToken |-> lst.next_page_token]
       IN  \/ lst' = [lst EXCEPT !.pc = "error", !.request = <<request>>, !.last = "page"]
           \/ \E items \in PagesFor(request.maxResults, Position(request.pageToken)),
                 more \in BOOLEAN :
                LET token == IF more THEN <<Position(request.pageToken) + Len(items)>> ELSE <<>>
                IN  lst' = [lst EXCEPT
                        !.request = <<request>>,
                        !.page = items,
                        !.videos = @ \o items,
                        !.next_page_token = token,
                        !.pages = Min(@ + 1, 2),
                        !.overfull = @ \/ Len(items) > request.maxResults,
                        !.last = "page",
                        !.pc = IF token = <<>> THEN "done" ELSE "loop"]
    /\ UNCHANGED <<meta, files, dirs, prompts, audio, rec, hist, event, budget, cli, res>>

\* the loop test failing, lines 152 and 174, and return videos, lines 167 and 189
ListReturn ==
    /\ lst.pc = "loop"
    /\ ~(Len(lst.videos) < lst.max_results)
    /\ lst' = [lst EXCEPT !.pc = "done", !.last = "return"]
    /\ UNCHANGED <<meta, files, dirs, prompts, audio, rec, hist, event, budget, cli, res>>

ListInit ==
    /\ InitStore
    /\ files = <<>>
    /\ prompts = <<>>
    /\ cli = CliIdle
    /\ lst = LstIdle
    /\ res = ResIdle

ListNext ==
    \/ ListStart
    \/ ListPage
    \/ ListReturn

ListSpec == ListInit /\ [][ListNext]_vars

(***************************************************************************)
(* The identifier resolver: extract_video_id (lines 45-60).  re.search     *)
(* is computed as the regex engine does: the leftmost position at which    *)
(* the pattern matches, the alternatives tried in order at each position,  *)
(* the group ([^&\n?#]+) taking the longest run of allowed characters.     *)
(***************************************************************************)
AlNum == {"a", "b", "c", "d", "e", "f", "g", "h", "i", "j", "k", "l", "m", "n", "o", "p", "q", "r", "s", "t", "u", "v", "w", "x", "y", "z", "A", "B", "C", "D", "E", "F", "G", "H", "I", "J", "K", "L", "M", "N", "O", "P", "Q", "R", "S", "T", "U", "V", "W", "X", "Y", "Z", "0", "1", "2", "3", "4", "5", "6", "7", "8", "9"}

\* str.isalnum(), line 47
isalnum(s) == s # <<>> /\ Range(s) \subseteq AlNum

\* the characters the group [^&\n?#] excludes, lines 51-52
GroupStops == {"&", "\n", "?", "#"}

\* a group that runs to the end of the input
GroupEndUnbounded(s, j) == Len(s)

RECURSIVE GroupEnd(_, _)
\* ([^&\n?#]+) starting at j: the last position of the run (j - 1: no character)
GroupEnd(s, j) ==
    IF j > Len(s) \/ s[j] \in GroupStops THEN j - 1 ELSE GroupEnd(s, j + 1)

\* the literal lit occurs in s at position i
LiteralAt(s, lit, i) ==
    i + Len(lit) - 1 <= Len(s) /\ SubSeq(s, i, i + Len(lit) - 1) = lit

\* the alternatives of the pattern that match at position i, the group included
MatchingAt(s, alts, i) ==
    {k \in 1..Len(alts) :
        /\ LiteralAt(s, alts[k], i)
        /\ GroupEnd(s, i + Len(alts[k])) >= i + Len(alts[k])}

RECURSIVE Search(_, _, _)
\* re.search(pattern, s), lines 56-58: <<group 1>> of the first match, or <<>>
Search(s, alts, i) ==
    IF i > Len(s) THEN <<>>
    ELSE IF MatchingAt(s, alts, i) # {}
    THEN LET k == CHOOSE x \in MatchingAt(s, alts, i) : \A y \in MatchingAt(s, alts, i) : x <= y
             start == i + Len(alts[k])
         IN  <<SubSeq(s, start, GroupEnd(s, start))>>
    ELSE Search(s, alts, i + 1)

WatchShape == <<"y", "o", "u", "t", "u", "b", "e", ".", "c", "o", "m", "/", "w", "a", "t", "c", "h", "?", "v", "=">>
ShortShape == <<"y", "o", "u", "t", "u", ".", "b", "e", "/">>
EmbedShape == <<"y", "o", "u", "t", "u", "b", "e", ".", "c", "o", "m", "/", "e", "m", "b", "e", "d", "/">>
VShape == <<"y", "o", "u", "t", "u", "b", "e", ".", "c", "o", "m", "/", "v", "/">>

\* the literal alternatives of patterns[0], line 51
VideoPattern1 == <<WatchShape, ShortShape, EmbedShape>>

\* the literal of patterns[1], line 52
VideoPattern2 == <<VShape>>

\* extract_video_id(url_or_id), lines 45-60
extract_video_id(url_or_id) ==
    IF Len(url_or_id) = 11 /\ isalnum(url_or_id)
    THEN [outcome |-> "ok", value |-> url_or_id]
    ELSE IF Search(url_or_id, VideoPattern1, 1) # <<>>
    THEN [outcome |-> "ok", value |-> Search(url_or_id, VideoPattern1, 1)[1]]
    ELSE IF Search(url_or_id, VideoPattern2, 1) # <<>>
    THEN [outcome |-> "ok", value |-> Search(url_or_id, VideoPattern2, 1)[1]]
    ELSE [outcome |-> "ValueError", value |-> <<>>]

(***************************************************************************)
(* The inputs tried: URLs put together from a scheme and host prefix, one  *)
(* of the four shapes, an id and what may follow an id in a URL; and       *)
(* inputs that are no such URL.                                            *)
(***************************************************************************)
UrlPrefixes == {<<>>, <<"h", "t", "t", "p", "s", ":", "/", "/">>, <<"h", "t", "t", "p", "s", ":", "/", "/", "w", "w", "w", ".">>, <<"h", "t", "t", "p", ":", "/", "/", "m", ".">>}

UrlShapes == {WatchShape, ShortShape, EmbedShape, VShape}

UrlIds == {<<"d", "Q", "w", "4", "w", "9", "W", "g", "X", "c", "Q">>, <<"a", "-", "b", "_", "c">>, <<"x">>}

UrlTails == {<<>>, <<"&", "t", "=", "1">>, <<"?", "t", "=", "1">>, <<"#", "t">>, <<"\n">>}

UrlInputs ==
    {[kind |-> "url", input |-> pre \o shape \o id \o tail, id |-> id] :
        pre \in UrlPrefixes, shape \in UrlShapes, id \in UrlIds, tail \in UrlTails}

OtherInputs ==
    {[kind |-> "other", input |-> x, id |-> <<>>] : x \in
        { <<>>,
          <<"d", "Q", "w", "4", "w", "9", "W", "g", "X", "c", "Q">>,
          <<"d", "Q", "w", "4", "w", "9", "W", "g", "X", "-", "Q">>,
          <<"a", "b", "c", "d", "e", "f", "g", "h", "i", "j">>,
          <<"a", "b", "c", "d", "e", "f", "g", "h", "i", "j", "k", "l">>,
          <<"h", "t", "t", "p", "s", ":", "/", "/", "v", "i", "m", "e", "o", ".", "c", "o", "m", "/", "1", "2", "3">>,
          <<"y", "o", "u", "t", "u", "b", "e", ".", "c", "o", "m", "/", "w", "a", "t", "c", "h", "?", "a", "=", "1", "&", "v", "=", "d", "Q", "w", "4", "w", "9", "W", "g", "X", "c", "Q">>,
          <<"h", "t", "t", "p", "s", ":", "/", "/", "y", "o", "u", "t", "u", ".", "b", "e", "/">>,
          <<"h", "t", "t", "p", "s", ":", "/", "/", "y", "o", "u", "t", "u", ".", "b", "e", "/", "?", "t", "=", "1">>,
          <<"y", "o", "u", "t", "u", "b", "e", ".", "c", "o", "m", "/", "v", "/", "x", "?", "u", "=", "y", "o", "u", "t", "u", ".", "b", "e", "/", "z", "z">>,
          <<"h", "t", "t", "p", "s", ":", "/", "/", "w", "w", "w", ".", "y", "o", "u", "t", "u", "b", "e", ".", "c", "o", "m", "/", "e", "m", "b", "e", "d", "/", "x", "/">> }}

\* video_id = summarizer.extract_video_id(url_or_id), line 387
ResolveVideo ==
    /\ res.pc = "input"
    /\ res.fn = "extract_video_id"
    /\ LET r == extract_video_id(res.input)
       IN  res' = [res EXCEPT !.pc = "done", !.outcome = r.outcome, !.value = r.value]
    /\ UNCHANGED <<meta, files, dirs, prompts, audio, rec, hist, event, budget, cli, lst>>

(***************************************************************************)
(* extract_playlist_id (lines 62-81) and _is_channel_url (lines 83-91).    *)
(* Both failures are ValueError; the message tells them apart.             *)
(***************************************************************************)
ChannelShape == <<"y", "o", "u", "t", "u", "b", "e", ".", "c", "o", "m", "/", "c", "h", "a", "n", "n", "e", "l", "/">>
CShape == <<"y", "o", "u", "t", "u", "b", "e", ".", "c", "o", "m", "/", "c", "/">>
HandleShape == <<"y", "o", "u", "t", "u", "b", "e", ".", "c", "o", "m", "/", "@">>
UserShape == <<"y", "o", "u", "t", "u", "b", "e", ".", "c", "o", "m", "/", "u", "s", "e", "r", "/">>

\* the literals of channel_patterns, lines 85-90, each followed by [^/]+
ChannelShapes == {ChannelShape, CShape, HandleShape, UserShape}

\* a check that takes no input for a channel URL
is_channel_url_never(url) == FALSE

\* _is_channel_url(url), lines 83-91: any(re.search(pattern, url))
is_channel_url(url) ==
    \E shape \in ChannelShapes, i \in 1..Len(url) :
        /\ LiteralAt(url, shape, i)
        /\ i + Len(shape) <= Len(url)
        /\ url[i + Len(shape)] # "/"

\* [?&]list=, line 72: the two strings the class and the literal stand for
PlaylistPattern1 == <<<<"?", "l", "i", "s", "t", "=">>, <<"&", "l", "i", "s", "t", "=">>>>

\* youtube\.com/playlist\?list=, line 73
PlaylistPattern2 == <<<<"y", "o", "u", "t", "u", "b", "e", ".", "c", "o", "m", "/", "p", "l", "a", "y", "l", "i", "s", "t", "?", "l", "i", "s", "t", "=">>>>

\* url_or_id.startswith('PL'), line 64
StartsWithPL(s) == Len(s) >= 2 /\ s[1] = "P" /\ s[2] = "L"

\* extract_playlist_id(url_or_id), lines 62-81
extract_playlist_id(url_or_id) ==
    IF Len(url_or_id) = 34 /\ StartsWithPL(url_or_id)
    THEN [outcome |-> "ok", message |-> "", value |-> url_or_id]
    ELSE IF is_channel_url(url_or_id)
    THEN [outcome |-> "ValueError", message |-> "channel URL, not a playlist URL", value |-> <<>>]
    ELSE IF Search(url_or_id, PlaylistPattern1, 1) # <<>>
    THEN [outcome |-> "ok", message |-> "", value |-> Search(url_or_id, PlaylistPattern1, 1)[1]]
    ELSE IF Search(url_or_id, PlaylistPattern2, 1) # <<>>
    THEN [outcome |-> "ok", message |-> "", value |-> Search(url_or_id, PlaylistPattern2, 1)[1]]
    ELSE [outcome |-> "ValueError", message |-> "Could not extract playlist ID", value |-> <<>>]

\* a playlist id of 34 characters
PlaylistId34 == <<"P", "L", "a", "1", "B", "2", "c", "3", "D", "4", "a", "1", "B", "2", "c", "3", "D", "4", "a", "1", "B", "2", "c", "3", "D", "4", "a", "1", "B", "2", "c", "3", "D", "4">>

ChannelNames == {<<"U", "C", "x", "1">>, <<"n">>}

ChannelTails == {<<>>, <<"?", "l", "i", "s", "t", "=", "P", "L", "a", "b">>, <<"/", "v", "i", "d", "e", "o", "s">>, <<"/", "p", "l", "a", "y", "l", "i", "s", "t", "s", "?", "v", "i", "e", "w", "=", "1", "&", "l", "i", "s", "t", "=", "P", "L", "a", "b">>, <<"/">>}

\* channel URLs: prefix, one of the four shapes, a name, and what may follow
ChannelInputs ==
    {[kind |-> "channel", input |-> pre \o shape \o name \o tail, id |-> <<>>] :
        pre \in UrlPrefixes, shape \in ChannelShapes, name \in ChannelNames, tail \in ChannelTails}

PlaylistIds == {PlaylistId34, <<"P", "L", "a", "b">>}

PlaylistHeads == {<<"y", "o", "u", "t", "u", "b", "e", ".", "c", "o", "m", "/", "p", "l", "a", "y", "l", "i", "s", "t", "?", "l", "i", "s", "t", "=">>, <<"y", "o", "u", "t", "u", "b", "e", ".", "c", "o", "m", "/", "w", "a", "t", "c", "h", "?", "v", "=", "x", "&", "l", "i", "s", "t", "=">>, <<"y", "o", "u", "t", "u", ".", "b", "e", "/", "x", "?", "l", "i", "s", "t", "=">>}

PlaylistTails == {<<>>, <<"&", "i", "n", "d", "e", "x", "=", "2">>, <<"#", "t">>}

\* playlist URLs: prefix, a page carrying list=, an id, and what may follow
PlaylistUrlInputs ==
    {[kind |-> "playlist", input |-> pre \o head \o id \o tail, id |-> id] :
        pre \in UrlPrefixes, head \in PlaylistHeads, id \in PlaylistIds, tail \in PlaylistTails}

PlaylistOtherInputs ==
    {[kind |-> "other", input |-> x, id |-> <<>>] : x \in
        { <<>>,
          PlaylistId34,
          <<"P", "L", "x", "x", "y", "o", "u", "t", "u", "b", "e", ".", "c", "o", "m", "/", "c", "/", "n", "?", "l", "i", "s", "t", "=", "P", "L", "a", "b", "c", "d", "e", "f", "g">>,
          <<"P", "L", "a", "1", "B", "2", "c", "3", "D", "4", "a", "1", "B", "2", "c", "3", "D", "4", "a", "1", "B", "2", "c", "3", "D", "4", "a", "1", "B", "2", "c", "3", "D">>,
          <<"U", "U", "a", "1", "B", "2", "c", "3", "D", "4", "a", "1", "B", "2", "c", "3", "D", "4", "a", "1", "B", "2", "c", "3", "D", "4", "a", "1", "B", "2", "c", "3", "D", "4">>,
          <<"P", "L", "a", "1", "B", "2", "c", "3", "D", "4", "a", "1", "B", "2", "c", "3", "D", "4", "a", "1", "B", "2", "c", "3", "D", "4", "a", "1", "B", "2", "c", "3", "D", "4", "x">>,
          <<"l", "i", "s", "t", "=", "P", "L", "a", "b">>,
          <<"h", "t", "t", "p", "s", ":", "/", "/", "w", "w", "w", ".", "y", "o", "u", "t", "u", "b", "e", ".", "c", "o", "m", "/", "c", "h", "a", "n", "n", "e", "l", "/">>,
          <<"h", "t", "t", "p", "s", ":", "/", "/", "w", "w", "w", ".", "y", "o", "u", "t", "u", "b", "e", ".", "c", "o", "m", "/", "c", "/", "/", "x", "?", "l", "i", "s", "t", "=", "P", "L", "a", "b">>,
          <<"h", "t", "t", "p", "s", ":", "/", "/", "w", "w", "w", ".", "y", "o", "u", "t", "u", "b", "e", ".", "c", "o", "m", "/", "p", "l", "a", "y", "l", "i", "s", "t", "?", "l", "i", "s", "t", "=">>,
          <<"h", "t", "t", "p", "s", ":", "/", "/", "w", "w", "w", ".", "y", "o", "u", "t", "u", "b", "e", ".", "c", "o", "m", "/", "w", "a", "t", "c", "h", "?", "v", "=", "x">> }}

PlaylistInputs == ChannelInputs \cup PlaylistUrlInputs \cup PlaylistOtherInputs

\* playlist_id = summarizer.extract_playlist_id(playlist_url_or_id), line 572
ResolvePlaylist ==
    /\ res.pc = "input"
    /\ res.fn = "extract_playlist_id"
    /\ LET r == extract_playlist_id(res.input)
       IN  res' = [res EXCEPT !.pc = "done", !.outcome = r.outcome,
                               !.message = r.message, !.value = r.value]
    /\ UNCHANGED <<meta, files, dirs, prompts, audio, rec, hist, event, budget, cli, lst>>

ResolveInit ==
    /\ InitStore
    /\ files = <<>>
    /\ prompts = <<>>
    /\ cli = CliIdle
    /\ lst = LstIdle
    /\ \/ \E x \in UrlInputs \cup OtherInputs :
            res = [pc |-> "input", fn |-> "extract_video_id", kind |-> x.kind, input |-> x.input,
                   id |-> x.id, outcome |-> "", message |-> "", value |-> <<>>]
       \/ \E x \in PlaylistInputs :
            res = [pc |-> "input", fn |-> "extract_playlist_id", kind |-> x.kind, input |-> x.input,
                   id |-> x.id, outcome |-> "", message |-> "", value |-> <<>>]

ResolveNext ==
    \/ ResolveVideo
    \/ ResolvePlaylist

ResolveSpec == ResolveInit /\ [][ResolveNext]_vars

(***************************************************************************)
(* Properties of the transcript, summary and audio caches.                 *)
(***************************************************************************)
Count(seq, x) == Cardinality({i \in 1..Len(seq) : seq[i] = x})

\* a step of the program (not a stuttering step, not an edit by the uploader)
Called(op) == event'.op = op /\ budget'.steps = budget.steps + 1

\* C1: two calls of summarize_transcript on the same dict with the same
\* template name that both return give the same string; the second one is a
\* cache hit that calls no service at all; and when the first one found the
\* template absent, the two calls together make exactly one completion call.
C1_SummaryIdempotent ==
    \A p \in Procs : \A i, j \in 1..Len(hist[p]) :
        (/\ i < j
         /\ hist[p][i].template = hist[p][j].template
         /\ hist[p][i].outcome = "ok"
         /\ hist[p][j].outcome = "ok")
        => /\ hist[p][j].text = hist[p][i].text
           /\ hist[p][j].hit
           /\ hist[p][j].net = <<>>
           /\ ~hist[p][i].hit =>
                Count(hist[p][i].net \o hist[p][j].net, "chat.completions") = 1

\* the same template summarized twice on one dict, the first time generated
C1_Witness ==
    \E i, j \in 1..Len(hist[1]) :
        /\ i < j
        /\ hist[1][i].template = hist[1][j].template
        /\ hist[1][i].outcome = "ok" /\ ~hist[1][i].hit
        /\ hist[1][j].outcome = "ok"

\* two calls of download_transcript for one video id, one right after the
\* other, the first one successful
TwoDownloads ==
    /\ event.op = "download_transcript"
    /\ event.outcome = "ok"
    /\ Called("download_transcript")
    /\ event'.video = event.video

\* C2 as stated: the second of two download_transcript calls for the same
\* video id, with nothing changed in between, returns the identical record
\* and triggers no network fetch.
C2_NoNetworkFetch ==
    [][(TwoDownloads /\ event'.outcome = "ok")
          => (event'.record = event.record /\ event'.net = <<>>)]_vars

\* C2 as the code has it: the second call fetches no transcript; it makes
\* exactly one metadata lookup (get_transcript_path needs the titles), and
\* when that lookup answers it returns the identical record.
C2_NoSecondTranscriptFetch ==
    [][TwoDownloads
          => /\ event'.net = <<"videos.list">>
             /\ event'.outcome = "ok" => event'.record = event.record]_vars

\* the second step of a run is a download answered from the file the first
\* step's download wrote (only a download writes a record with no summary)
C2_Witness ==
    /\ budget.steps = 2
    /\ event.op = "download_transcript"
    /\ event.outcome = "ok"
    /\ event.net = <<"videos.list">>
    /\ "summaries" \in DOMAIN event.record[1]
    /\ event.record[1].summaries = <<>>

\* the summaries this session generated and persisted through the dict it holds
Generated(p) ==
    {i \in 1..Len(hist[p]) : hist[p][i].outcome = "ok" /\ ~hist[p][i].hit}

\* C3: after summarize_transcript generated a summary for a template absent
\* from the dict and returned, a later download_transcript for the same video
\* reloads a record with the same video_id and full_text whose summaries map
\* the template to the returned text.
C3_GeneratedSummaryReloaded ==
    [][\A p \in Procs :
          (/\ Called("download_transcript")
           /\ event'.outcome = "ok"
           /\ rec[p] # <<>>
           /\ rec[p][1].video_id = event'.video)
          => \A i \in Generated(p) :
                LET reloaded == event'.record[1]
                IN  /\ reloaded.video_id = rec[p][1].video_id
                    /\ reloaded.full_text = rec[p][1].full_text
                    /\ "summaries" \in DOMAIN reloaded
                    /\ DictHas(reloaded.summaries, hist[p][i].template)
                    /\ DictGet(reloaded.summaries, hist[p][i].template) = hist[p][i].text]_vars

\* the record of a video as the program finds it: the file at the path
\* get_transcript_path computes now
PersistedSummaries(v) ==
    LET path == GetTranscriptPath(meta[v], v)
    IN  IF path \in DOMAIN files /\ "summaries" \in DOMAIN files[path]
        THEN {<<e[1], e[2]>> : e \in Range(JsonLoad(files[path]).summaries)}
        ELSE {}

\* C4: the summaries of a video's persisted record are append-only: an entry
\* summaries[t] = s the record holds is held by it in every later state.
C4_SummariesAppendOnly ==
    [][\A v \in Videos : PersistedSummaries(v) \subseteq PersistedSummaries(v)']_vars

\* the record files stored for a video id
RecordFiles(v) == {path \in DOMAIN files : JsonLoad(files[path]).video_id = v}

\* C5: storage holds at most one record file for a given video id.
C5_OneRecordPerVideo ==
    \A v \in Videos : Cardinality(RecordFiles(v)) <= 1

\* C6: when audio is requested for a (video, template) pair whose file exists
\* with nonzero size, the speech service is not called and the file is left
\* as it is, whatever voice is asked for.
C6_CachedAudioReused ==
    [][(/\ Called("play_summary_audio")
        /\ <<event'.video, "_", event'.template, "_openai.mp3">> \in DOMAIN audio
        /\ audio[<<event'.video, "_", event'.template, "_openai.mp3">>].size > 0)
          => (audio' = audio /\ event'.net = <<>>)]_vars

\* cached audio was played although another voice than the cached one was asked for
C6_Witness ==
    /\ event.op = "play_summary_audio"
    /\ event.outcome = "played cached"
    /\ audio[<<event.video, "_", event.template, "_openai.mp3">>].voice # event.text

(***************************************************************************)
(* Properties of the CLI verbs.                                            *)
(***************************************************************************)
\* C7: in each of the four verbs, a video whose transcript and summary
\* steps succeed goes through transcript, summary, printing, in that order,
\* and when --play-audio is given the audio step follows the printing.
C7_StepsInOrder ==
    cli.pc # "idle" =>
      \A n \in 1..Len(cli.processed) :
          ~cli.processed[n].failed =>
              cli.processed[n].steps =
                  IF cli.play_audio
                  THEN <<"transcript", "summary", "print", "audio">>
                  ELSE <<"transcript", "summary", "print">>

\* the videos the processing loop has taken up so far, in the order taken
Taken == [n \in 1..Len(cli.processed) |-> cli.processed[n].video]

\* C8: in the batch verbs a failure while processing one selected video is
\* reported and the loop goes on: every selected video is taken up, in
\* listing order, whatever failed before it.
C8_FailureDoesNotStopBatch ==
    (cli.pc \in {"transcript", "summary", "print", "audio", "done"} /\ cli.verb \in BatchVerbs)
      => /\ Taken = SubSeq(cli.selected, 1, Len(cli.processed))
         /\ Len(cli.errors) >= Cardinality({n \in 1..Len(cli.processed) : cli.processed[n].failed})
         /\ (cli.pc = "done" /\ cli.k > Len(cli.video_ids)) => Taken = cli.selected

\* a batch run that ended with a failed video followed by a processed one
C8_Witness ==
    /\ cli.pc = "done"
    /\ cli.verb \in BatchVerbs
    /\ Len(cli.processed) = 2
    /\ cli.processed[1].failed
    /\ ~cli.processed[2].failed

(***************************************************************************)
(* Properties of the listing client.                                       *)
(***************************************************************************)
\* a page was requested and answered in this step
PageStep == lst.pc = "loop" /\ lst'.pc \in {"loop", "done"} /\ lst'.last = "page" /\ lst' # lst

\* C9: each request asks for min(50, max_results - collected) items, at most
\* 50, and carries the continuation token of the previous page (none on the
\* first); the loop stops as soon as max_results items are collected or the
\* service gives no token; the result is the pages concatenated in upstream
\* order, and has at most max_results items when no page held more items
\* than requested.
C9_Pagination ==
    [][/\ PageStep =>
           /\ Len(lst.videos) < lst.max_results
           /\ lst'.request[1].maxResults = Min(50, lst.max_results - Len(lst.videos))
           /\ lst'.request[1].maxResults \in 1..50
           /\ lst'.request[1].pageToken = lst.next_page_token
           /\ lst.pages = 0 => lst'.request[1].pageToken = <<>>
           /\ lst.pages > 0 => lst'.request[1].pageToken # <<>>
           /\ lst'.videos = lst.videos \o lst'.page
           /\ lst'.videos = [n \in 1..Len(lst'.videos) |-> n]
       /\ (lst.pc = "loop" /\ lst'.pc = "done") =>
           /\ Len(lst'.videos) >= lst.max_results \/ lst'.next_page_token = <<>>
           /\ ~lst'.overfull => Len(lst'.videos) <= lst.max_results
       /\ (lst.pc = "loop" /\ lst'.pc = "loop") =>
           Len(lst'.videos) < lst.max_results \/ lst'.last = "page"]_vars

\* more than 50 results asked for and collected over several pages
C9_Witness ==
    /\ lst.pc = "done"
    /\ lst.max_results > PageSize
    /\ lst.pages = 2
    /\ Len(lst.videos) = lst.max_results
    /\ lst.request[1].maxResults < PageSize

(***************************************************************************)
(* Properties of the identifier resolver.                                  *)
(***************************************************************************)
\* some pattern of extract_video_id matches in s: one of the four shapes
\* occurs followed by a character other than & ? # and newline
SomeShapeMatches(s) ==
    \E shape \in UrlShapes, i \in 1..Len(s) :
        /\ LiteralAt(s, shape, i)
        /\ i + Len(shape) <= Len(s)
        /\ s[i + Len(shape)] \notin {"&", "\n", "?", "#"}

\* C10: extract_video_id returns an 11-character alphanumeric input
\* unchanged; from a URL of one of the four shapes (watch?v=, youtu.be/,
\* embed/, /v/) with an id embedded (the id running to the end of the input
\* or to the next & ? # or newline) it returns exactly that id; and an input
\* that is neither and matches no pattern fails (ValueError).
C10_ExtractVideoId ==
    (res.pc = "done" /\ res.fn = "extract_video_id") =>
        /\ (Len(res.input) = 11 /\ Range(res.input) \subseteq AlNum)
              => (res.outcome = "ok" /\ res.value = res.input)
        /\ res.kind = "url" => (res.outcome = "ok" /\ res.value = res.id)
        /\ (~(Len(res.input) = 11 /\ Range(res.input) \subseteq AlNum) /\ ~SomeShapeMatches(res.input))
              => res.outcome = "ValueError"
        /\ res.outcome = "ValueError" => ~SomeShapeMatches(res.input)

\* an id taken out of a URL in which a query string follows it
C10_Witness ==
    /\ res.pc = "done"
    /\ res.kind = "url"
    /\ res.outcome = "ok"
    /\ res.value = res.id
    /\ Len(res.input) > Len(res.id) + Len(WatchShape)
    /\ res.input[Len(res.input)] = "1"

\* the input has one of the four channel-URL shapes: /channel/, /c/, /@ or
\* /user/ of youtube.com, followed by a name
ChannelUrlShape(s) ==
    \E shape \in {ChannelShape, CShape, HandleShape, UserShape} :
        \E i \in 1..Len(s) :
            /\ FindSub(s, shape, i) = i
            /\ Len(s) >= i + Len(shape)
            /\ s[i + Len(shape)] # "/"

\* the 34-character playlist ids
IsPlaylistId34(s) == Len(s) = 34 /\ SubSeq(s, 1, 2) = <<"P", "L">>

\* C11: extract_playlist_id returns every 34-character input starting with
\* PL unchanged; any other input of one of the four channel-URL shapes fails
\* with the channel-URL error (WrongResourceType), also when it carries a
\* list= parameter; a playlist id is extracted only from inputs that are not
\* channel URLs, and from a playlist URL it is the id after list=.
C11_ExtractPlaylistId ==
    (res.pc = "done" /\ res.fn = "extract_playlist_id") =>
        /\ IsPlaylistId34(res.input) => (res.outcome = "ok" /\ res.value = res.input)
        /\ (~IsPlaylistId34(res.input) /\ (res.kind = "channel" \/ ChannelUrlShape(res.input)))
              => (res.outcome = "ValueError" /\ res.message = "channel URL, not a playlist URL")
        /\ (res.outcome = "ok" /\ ~IsPlaylistId34(res.input))
              => (~ChannelUrlShape(res.input) /\ res.kind # "channel")
        /\ res.kind = "playlist" => (res.outcome = "ok" /\ res.value = res.id)

\* a channel URL carrying a list= parameter was refused as a channel URL
C11_Witness ==
    /\ res.pc = "done"
    /\ res.fn = "extract_playlist_id"
    /\ res.kind = "channel"
    /\ Contains(res.input, <<"l", "i", "s", "t", "=">>)
    /\ res.outcome = "ValueError"
    /\ res.message = "channel URL, not a playlist URL"

(***************************************************************************)
(* Properties of the failure paths.                                        *)
(***************************************************************************)
\* a template with no {transcript} placeholder
NoPlaceholder(template) == \A i \in 1..Len(template) : template[i] # "{transcript}"

\* a template with braces besides its placeholder
ExtraBraces(template) ==
    \E i \in 1..Len(template) : template[i] \in {"{", "}", "{}", "{other}"}

\* a call of summarize_transcript by session p that missed the summary cache
\* and loaded a template for which `bad` holds
MissWith(p, bad(_)) ==
    /\ Called("summarize_transcript")
    /\ event'.proc = p
    /\ ~hist'[p][Len(hist'[p])].hit
    /\ bad(prompts'[event'.template])

\* the call failed before any completion-service call and left the record,
\* in storage and in memory, without a new summary
FailedAtSubstitution(p) ==
    /\ event'.outcome = "error"
    /\ event'.net = <<>>
    /\ files' = files
    /\ WithSummaries(rec'[p][1]) = WithSummaries(rec[p][1])

\* C12: on a summary cache miss a malformed template (no {transcript}
\* placeholder, or extra braces) makes summarize_transcript fail at
\* substitution time, before any completion-service call and without
\* changing the record.
C12_MalformedTemplateFails ==
    [][\A p \in Procs :
          (MissWith(p, NoPlaceholder) \/ MissWith(p, ExtraBraces)) => FailedAtSubstitution(p)]_vars

\* the extraction service could not produce the transcript of the video
\* whose download was the last call
TranscriptFetchFailed(e) ==
    /\ e.op = "download_transcript"
    /\ e.outcome = "error"
    /\ e.net = <<"videos.list", "get_transcript">>

\* C13: when no record is cached for the video and the extraction service
\* cannot produce a transcript, download_transcript fails with the wrapping
\* error (TranscriptUnavailable: ValueError "Could not download transcript",
\* carrying the cause) and writes no record file; a call for the same video
\* made next attempts the fetch again.
C13_TranscriptUnavailable ==
    [][/\ (Called("download_transcript") /\ TranscriptFetchFailed(event'))
            => /\ GetTranscriptPath(meta[event'.video], event'.video) \notin DOMAIN files
               /\ event'.text = "ValueError: Could not download transcript"
               /\ files' = files
               /\ \A v \in Videos : RecordFiles(v)' = RecordFiles(v)
       /\ (TranscriptFetchFailed(event) /\ Called("download_transcript")
             /\ event'.video = event.video /\ Len(event'.net) > 1)
            => event'.net[2] = "get_transcript"]_vars

\* a download that failed at the extraction service with nothing stored
C13_Witness ==
    /\ TranscriptFetchFailed(event)
    /\ event.text = "ValueError: Could not download transcript"
    /\ RecordFiles(event.video) = {}

(***************************************************************************)
(* Properties of the confirmation protocol.                                *)
(***************************************************************************)
\* a batch verb whose listing succeeded
Listed ==
    /\ cli.pc \notin {"idle", "list"}
    /\ cli.verb \in {"channel", "search", "playlist"}
    /\ Count(cli.errors, "Error") = 0

\* the verbs that ask the global question when prompts are not skipped
GlobalQuestion == cli.verb \in {"channel", "search"}

\* the per-video prompts issued so far
VideoPrompts ==
    IF GlobalQuestion /\ cli.asked # <<>> THEN Tail(cli.asked) ELSE cli.asked

\* the answer accepts the video: yes, or Enter where the default is accept
Accepts(a) == a.answer = "y" \/ (a.answer = "" /\ cli.verb = "playlist")

\* the videos whose per-video prompt was accepted, in the order asked
Chosen ==
    LET acc == SelectSeq(VideoPrompts, Accepts)
    IN  [n \in 1..Len(acc) |-> cli.video_ids[acc[n].about]]

\* the listing with the positions of S struck out
Without(S) ==
    LET RECURSIVE Keep(_)
        Keep(k) == IF k = 0 THEN <<>>
                   ELSE IF k \in S THEN Keep(k - 1)
                   ELSE Append(Keep(k - 1), cli.video_ids[k])
    IN  Keep(Len(cli.video_ids))

\* the selection loop is over
SelectionOver == cli.pc \in {"transcript", "summary", "print", "audio", "done"}

\* C14: without --auto-confirm, channel and search ask one global question
\* first and process no video when it is declined, then ask once per video
\* with default decline; playlist asks no global question and asks once per
\* video with default accept; a video is processed only if every prompt that
\* applies to it was accepted; with --auto-confirm no prompt is issued and
\* every listed video whose metadata lookup succeeds is processed.
C14_ConfirmationProtocol ==
    Listed =>
        /\ cli.auto_confirm =>
              /\ cli.asked = <<>>
              /\ SelectionOver =>
                    \E S \in SUBSET (1..Len(cli.video_ids)) :
                        /\ Cardinality(S) = Count(cli.errors, "Error getting info")
                        /\ cli.selected = Without(S)
        /\ (~cli.auto_confirm /\ GlobalQuestion /\ cli.pc # "confirm_all") =>
              /\ cli.asked # <<>>
              /\ cli.asked[1].about = "all"
              /\ cli.asked[1].answer # "y" =>
                    /\ Len(cli.asked) = 1
                    /\ cli.selected = <<>>
                    /\ cli.processed = <<>>
                    /\ cli.pc = "done"
        /\ (~cli.auto_confirm /\ GlobalQuestion /\ cli.pc = "confirm_all") => cli.asked = <<>>
        /\ ~cli.auto_confirm =>
              /\ \A n \in 1..Len(VideoPrompts) : VideoPrompts[n].about \in 1..Len(cli.video_ids)
              /\ \A n, m \in 1..Len(VideoPrompts) :
                    n < m => VideoPrompts[n].about < VideoPrompts[m].about
              /\ cli.selected = Chosen
              /\ (SelectionOver /\ (GlobalQuestion => cli.asked[1].answer = "y")) =>
                    Len(VideoPrompts) + Count(cli.errors, "Error getting info") = Len(cli.video_ids)
        /\ \A n \in 1..Len(cli.processed) : cli.processed[n].video = cli.selected[n]
        /\ cli.pc = "done" => Len(cli.processed) = Len(cli.selected)

\* channel or search without --auto-confirm: the global question accepted,
\* two videos asked about, one taken and one declined by pressing Enter
C14_Witness ==
    /\ Listed
    /\ GlobalQuestion
    /\ ~cli.auto_confirm
    /\ cli.pc = "done"
    /\ Len(cli.asked) = 3
    /\ cli.asked[1].answer = "y"
    /\ \E n \in 2..3 : cli.asked[n].answer = ""
    /\ Len(cli.selected) = 1
    /\ Len(cli.processed) = 1

\* playlist without --auto-confirm: a video taken by pressing Enter
C14_WitnessPlaylist ==
    /\ Listed
    /\ cli.verb = "playlist"
    /\ ~cli.auto_confirm
    /\ cli.pc = "done"
    /\ cli.asked # <<>>
    /\ cli.asked[1].answer = ""
    /\ Len(cli.processed) >= 1

(***************************************************************************)
(* Properties of two invocations running at once.                          *)
(***************************************************************************)
\* the file the program finds for video v now
RecordPath(v) == GetTranscriptPath(meta[v], v)

\* C15: two invocations working on the same video's record are not
\* synchronized and the last writer wins: a call of summarize_transcript that
\* generates a summary leaves in storage exactly the entries of the dict the
\* caller loaded plus its own, whatever the file held; so when each of two
\* invocations loads the record and generates for a different template, the
\* record can end with only the later writer's entry (C15_Witness).
C15_LastWriterWins ==
    [][\A p \in Procs :
          (/\ Called("summarize_transcript")
           /\ event'.proc = p
           /\ event'.outcome = "ok"
           /\ ~hist'[p][Len(hist'[p])].hit)
          => /\ RecordPath(event'.video) \in DOMAIN files'
             /\ JsonLoad(files'[RecordPath(event'.video)]).summaries
                   = DictSet(WithSummaries(rec[p][1]).summaries, event'.template, event'.text)]_vars

\* both invocations loaded the record of one video with no summaries and each
\* generated and wrote a summary for a different template; the one file of
\* the video holds the later writer's entry only
C15_Witness ==
    \E p, q \in Procs :
        /\ p # q
        /\ rec[p] # <<>>
        /\ rec[q] # <<>>
        /\ rec[p][1].video_id = rec[q][1].video_id
        /\ event.op = "summarize_transcript"
        /\ event.proc = q
        /\ event.outcome = "ok"
        /\ Generated(q) # {}
        /\ \E i \in Generated(p) : hist[p][i].template # event.template
        /\ RecordFiles(event.video) = {RecordPath(event.video)}
        /\ DictKeys(JsonLoad(files[RecordPath(event.video)]).summaries) = {event.template}
        /\ DictKeys(rec[p][1].summaries) = {t \in Templates : t # event.template}

====
